---- MODULE Spec2Model ----
(***************************************************************************)
(* Model of app.py: the story graph (EnhancedStoryAgent), the session     *)
(* state kept in st.session_state, and the button / upload handlers of     *)
(* the Streamlit script.                                                   *)
(*                                                                         *)
(* Representation.                                                         *)
(*  - A Python dict is insertion ordered; it is a sequence of entries with *)
(*    unique keys.  story_nodes is a sequence of StoryNode records, a      *)
(*    choices dict is a sequence of [label, to] records.                   *)
(*  - A text is a sequence of tokens (words, whitespace, the achievement   *)
(*    marker, the trophy delimiter); the long texts of the sample tree are *)
(*    abbreviated to a title token plus what follows the marker.           *)
(*  - A parsed JSON document is [kind, items]; a node entry of it is       *)
(*    [shape, keys, text, choices, metadata, image_prompt, mood] where     *)
(*    keys is the set of fields the entry really has.                      *)
(*  - None is the string "None", which is no node id of the model.         *)
(*  - One action is one user interaction: the handler, the st.rerun() it   *)
(*    ends with, and the rendering of the current node that the script     *)
(*    run performs afterwards (lines 464-495), unless an uncaught          *)
(*    exception stops the script first.                                    *)
(***************************************************************************)
EXTENDS Integers, Sequences, FiniteSets, TLC

VARIABLES
    story_nodes,    \* agent.story_nodes: ordered dict id -> StoryNode
    root_id,        \* agent.root_id
    uuid_count,     \* how many ids uuid.uuid4() has handed out
    progress,       \* st.session_state.progress   (history)
    current_node,   \* st.session_state.current_node
    story_text,     \* st.session_state.story_text (visitedText)
    achievements,   \* st.session_state.achievements
    choices_made,   \* st.session_state.choices_made
    notified,       \* the names the last script run announced (st.balloons, line 494)
    op,             \* the handler that ran last
    outcome         \* what that handler reported

vars == <<story_nodes, root_id, uuid_count, progress, current_node, story_text,
          achievements, choices_made, notified, op, outcome>>

session == <<progress, current_node, story_text, achievements, choices_made>>

-----------------------------------------------------------------------------
(* Bounds of the model *)

MaxHistory == 2
MaxPath == 6
MaxUuid == 1
MaxChoices == 2
MaxDebt == 1

-----------------------------------------------------------------------------
(* Values *)

None == "None"

Marker == "Achievement Unlocked:"

Trophy == "[trophy]"

Whitespace == {" ", "\n"}

DefaultText == <<>>

DefaultChoices == <<>>

DefaultMetadata == "{}"

DefaultImagePrompt == ""

DefaultMood == "neutral"

StoryNode(id, text, choices, metadata, image_prompt, mood) ==
    [id |-> id, text |-> text, choices |-> choices, metadata |-> metadata,
     image_prompt |-> image_prompt, mood |-> mood]

-----------------------------------------------------------------------------
(* Ordered dicts *)

Keys(nodes) == {nodes[i].id : i \in 1..Len(nodes)}

Labels(choices) == {choices[i].label : i \in 1..Len(choices)}

\* nodes[nid] = node : an existing key keeps its position, a new key is appended
DictSetNode(nodes, nid, node) ==
    IF nid \in Keys(nodes)
    THEN [i \in 1..Len(nodes) |-> IF nodes[i].id = nid THEN node ELSE nodes[i]]
    ELSE Append(nodes, node)

\* DictSetChoice that deletes an existing label and stores it anew, last
DictSetChoice_MovesToEnd(choices, label, to) ==
    Append(SelectSeq(choices, LAMBDA c : c.label # label), [label |-> label, to |-> to])

\* choices[label] = to
DictSetChoice(choices, label, to) ==
    IF label \in Labels(choices)
    THEN [i \in 1..Len(choices) |->
            IF choices[i].label = label THEN [label |-> label, to |-> to]
            ELSE choices[i]]
    ELSE Append(choices, [label |-> label, to |-> to])

\* node.get(k, default) on a map-shaped entry of a document
Get(node, k, default) == IF k \in node.keys THEN node[k] ELSE default


-----------------------------------------------------------------------------
(* Documents: what json.loads returns for an uploaded file, and what       *)
(* load_tree receives                                                      *)

ObjectEntry(keys, text, choices, metadata, image_prompt, mood) ==
    [shape |-> "object", keys |-> keys,
     text |-> IF "text" \in keys THEN text ELSE DefaultText,
     choices |-> IF "choices" \in keys THEN choices ELSE DefaultChoices,
     metadata |-> IF "metadata" \in keys THEN metadata ELSE DefaultMetadata,
     image_prompt |-> IF "image_prompt" \in keys THEN image_prompt ELSE DefaultImagePrompt,
     mood |-> IF "mood" \in keys THEN mood ELSE DefaultMood]

\* a node entry that is a JSON string: it has no .get
StringEntry ==
    [shape |-> "string", keys |-> {}, text |-> DefaultText, choices |-> DefaultChoices,
     metadata |-> DefaultMetadata, image_prompt |-> DefaultImagePrompt,
     mood |-> DefaultMood]

Item(key, value) == [key |-> key, value |-> value]

Choice(label, to) == [label |-> <<label>>, to |-> to]

ObjectDoc(items) == [kind |-> "object", items |-> items]

\* a JSON array at the top level: it has no .items
ArrayDoc == [kind |-> "array", items |-> <<>>]

\* a file that is not JSON: json.loads raises
InvalidDoc == [kind |-> "invalid", items |-> <<>>]

DocKeys(tree) == {tree.items[i].key : i \in 1..Len(tree.items)}

\* the five fields every node of the sample tree is written with
SampleEntry(title, ending, choices, image_prompt, mood) ==
    ObjectEntry({"text", "choices", "image_prompt", "mood"},
                IF ending = <<>> THEN <<title>>
                ELSE <<title, "\n", "*", Marker, " ">> \o ending \o <<"*", " ", Trophy, "\n">>,
                choices, DefaultMetadata, image_prompt, mood)

enhanced_sample_story_tree ==
    ObjectDoc(<<
      Item("start", SampleEntry("The Awakening", <<>>,
           <<Choice("Take the forest trail - embrace the unknown", "forest_entrance"),
             Choice("Walk to the village - seek civilization", "village_gate")>>,
           "violet clouds, two diverging paths", "mysterious")),
      Item("forest_entrance", SampleEntry("The Whispering Woods", <<>>,
           <<Choice("Follow the mysterious light - curiosity calls", "mystic_clearing"),
             Choice("Enter the hollow trunk - brave the darkness", "hollow_trunk"),
             Choice("Return to the crossroads - reconsider your path", "start")>>,
           "enchanted forest with glowing lights", "magical")),
      Item("village_gate", SampleEntry("Ravenwood Village Gates", <<>>,
           <<Choice("Buy the mysterious amulet - invest in magic", "amulet_shop"),
             Choice("Politely refuse and ask about the map - seek knowledge", "old_scholar"),
             Choice("Return to the crossroads", "start")>>,
           "fantasy village gate with merchant", "hopeful")),
      Item("mystic_clearing", SampleEntry("The Stag's Clearing", <<>>,
           <<Choice("Answer 'an echo' - trust your intuition", "riddle_success"),
             Choice("Withdraw respectfully", "forest_exit")>>,
           "magical clearing with crystalline stag", "wise")),
      Item("hollow_trunk", SampleEntry("Chamber of Whispers", <<>>,
           <<Choice("Take the iron key - embrace your destiny", "key_taken"),
             Choice("Leave it and go back - some power is too great", "forest_entrance")>>,
           "hidden chamber inside tree trunk", "mysterious")),
      Item("amulet_shop", SampleEntry("Visions of the Amulet", <<>>,
           <<Choice("Follow the vision to the lighthouse - heed the call", "lighthouse_path"),
             Choice("Discard the amulet - reject the vision", "village_gate")>>,
           "amulet showing vision of lighthouse", "visionary")),
      Item("old_scholar", SampleEntry("The Scholar's Discovery", <<>>,
           <<Choice("Seek the hidden library - pursue knowledge", "undersea_library"),
             Choice("Ignore and explore the village - enjoy the present", "village_market")>>,
           "old scholar examining ancient map", "discovery")),
      Item("riddle_success", SampleEntry("The Stag's Blessing", <<>>,
           <<Choice("Continue deeper into the forest - embrace the journey", "forest_depths"),
             Choice("Return to the map - reconsider your options", "start")>>,
           "stag bestowing protective ward", "triumphant")),
      Item("forest_exit", SampleEntry("Emerging Renewed", <<>>,
           <<Choice("Return to the crossroads", "start")>>,
           "person emerging from dark forest", "peaceful")),
      Item("key_taken", SampleEntry("Ending: The Heart's Compass",
           <<"True North of the Heart">>, <<>>,
           "ancient compass glowing", "fulfilling")),
      Item("lighthouse_path", SampleEntry("Ending: Guardian of the Storm",
           <<"Keeper of the Light">>, <<>>,
           "ancient lighthouse on stormy cliff", "epic")),
      Item("undersea_library", SampleEntry("Ending: Keeper of Stories",
           <<"Librarian of Lost Tales">>, <<>>,
           "undersea crystal library", "wonderous")),
      Item("village_market", SampleEntry("Ending: Simple Joys",
           <<"Master of the Present Moment">>, <<>>,
           "bustling fantasy market", "content")),
      Item("forest_depths", SampleEntry("Ending: Discoverer of Ruins",
           <<"Archaeologist of the Arcane">>, <<>>,
           "ancient overgrown ruins", "discovery"))
    >>)

-----------------------------------------------------------------------------
(* EnhancedStoryAgent *)

\* the for loop of load_tree from entry i on: it stops at the first entry
\* that has no .get, keeping the nodes stored so far
RECURSIVE LoadLoop(_, _, _)
LoadLoop(items, i, acc) ==
    IF i > Len(items) THEN [story_nodes |-> acc, raised |-> "no"]
    ELSE IF items[i].value.shape # "object"
         THEN [story_nodes |-> acc, raised |-> "AttributeError"]
         ELSE LET nid == items[i].key
                  node == items[i].value
                  node_obj == StoryNode(nid,
                                        Get(node, "text", DefaultText),
                                        Get(node, "choices", DefaultChoices),
                                        Get(node, "metadata", DefaultMetadata),
                                        Get(node, "image_prompt", DefaultImagePrompt),
                                        Get(node, "mood", DefaultMood))
              IN LoadLoop(items, i + 1, DictSetNode(acc, nid, node_obj))

\* ComputeRoot with the "start" rule left out: the first key is the root
ComputeRoot_FirstKey(tree, nodes) ==
    IF Len(nodes) > 0 THEN nodes[1].id ELSE None

\* line 42: the root of a tree that has been read into nodes
ComputeRoot(tree, nodes) ==
    IF "start" \in DocKeys(tree) THEN "start"
    ELSE IF Len(nodes) > 0 THEN nodes[1].id
    ELSE None

\* load_tree on an agent whose root is old_root: the agent's fields afterwards
\* and the exception that left the method, if any
load_tree(tree, old_root) ==
    IF tree.kind # "object"
    THEN [story_nodes |-> <<>>, root_id |-> old_root, raised |-> "AttributeError"]
    ELSE LET r == LoadLoop(tree.items, 1, <<>>)
         IN  IF r.raised # "no"
             THEN [story_nodes |-> r.story_nodes, root_id |-> old_root, raised |-> r.raised]
             ELSE [story_nodes |-> r.story_nodes,
                   root_id |-> ComputeRoot(tree, r.story_nodes), raised |-> "no"]

Has(nodes, node_id) == node_id \in Keys(nodes)

\* self.story_nodes[node_id], for a node_id that Has
get_node(nodes, node_id) ==
    nodes[CHOOSE i \in 1..Len(nodes) : nodes[i].id = node_id]

\* str(uuid.uuid4()): an id no earlier call returned and no document holds
Uuid(n) == "uuid-" \o ToString(n)

\* add_node that rebuilds the mapping around the new node
add_node_Rebuilds(nodes, nid, text, choices, image_prompt, mood) ==
    <<StoryNode(nid, text, choices, DefaultMetadata, image_prompt, mood)>>

add_node(nodes, nid, text, choices, image_prompt, mood) ==
    DictSetNode(nodes, nid,
                StoryNode(nid, text, choices, DefaultMetadata, image_prompt, mood))

\* link_choice that silently skips a target the graph does not hold
link_choice_ChecksTarget(nodes, from_id, choice_text, to_id) ==
    [i \in 1..Len(nodes) |->
        IF nodes[i].id = from_id /\ Has(nodes, to_id)
        THEN [nodes[i] EXCEPT !.choices = DictSetChoice(@, choice_text, to_id)]
        ELSE nodes[i]]

\* link_choice for a from_id that Has
link_choice(nodes, from_id, choice_text, to_id) ==
    [i \in 1..Len(nodes) |->
        IF nodes[i].id = from_id
        THEN [nodes[i] EXCEPT !.choices = DictSetChoice(@, choice_text, to_id)]
        ELSE nodes[i]]

\* export_tree with the mood left out of the exported entries
export_tree_NoMood(nodes) ==
    ObjectDoc([i \in 1..Len(nodes) |->
        Item(nodes[i].id,
             ObjectEntry({"text", "choices", "metadata", "image_prompt"},
                         nodes[i].text, nodes[i].choices, nodes[i].metadata,
                         nodes[i].image_prompt, nodes[i].mood))])

export_tree(nodes) ==
    ObjectDoc([i \in 1..Len(nodes) |->
        Item(nodes[i].id,
             ObjectEntry({"text", "choices", "metadata", "image_prompt", "mood"},
                         nodes[i].text, nodes[i].choices, nodes[i].metadata,
                         nodes[i].image_prompt, nodes[i].mood))])

-----------------------------------------------------------------------------
(* Text helpers *)

\* the index of the first tok in text, 0 when there is none
Find(text, tok) ==
    IF \E i \in 1..Len(text) : text[i] = tok
    THEN CHOOSE i \in 1..Len(text) : text[i] = tok /\ \A j \in 1..(i - 1) : text[j] # tok
    ELSE 0

\* text.split(tok)[0]
BeforeFirst(text, tok) ==
    IF Find(text, tok) = 0 THEN text ELSE SubSeq(text, 1, Find(text, tok) - 1)

\* what follows the first tok of a text that holds one
AfterFirst(text, tok) == SubSeq(text, Find(text, tok) + 1, Len(text))

\* text.strip()
Strip(text) ==
    LET solid == {i \in 1..Len(text) : text[i] \notin Whitespace}
    IN  IF solid = {} THEN <<>>
        ELSE SubSeq(text, CHOOSE i \in solid : \A j \in solid : i <= j,
                          CHOOSE i \in solid : \A j \in solid : i >= j)

\* line 491, for a text that holds the marker:
\* text.split("Achievement Unlocked:")[1].split(trophy)[0].strip()
ExtractAchievement(text) ==
    Strip(BeforeFirst(BeforeFirst(AfterFirst(text, Marker), Marker), Trophy))

PrefixLen == 30

\* line 406: "Continue to: " + text[:30] + "..."
AutoLabel(text) ==
    <<"Continue to: ">>
    \o SubSeq(text, 1, IF Len(text) < PrefixLen THEN Len(text) ELSE PrefixLen)
    \o <<"...">>

-----------------------------------------------------------------------------
(* The session and the handlers, as functions of the state they read *)

Sess ==
    [progress |-> progress, current_node |-> current_node, story_text |-> story_text,
     achievements |-> achievements, choices_made |-> choices_made]

SetSession(s) ==
    /\ progress' = s.progress
    /\ current_node' = s.current_node
    /\ story_text' = s.story_text
    /\ achievements' = s.achievements
    /\ choices_made' = s.choices_made

\* lines 339-344, on the agent just built
StartSession(nodes, root) ==
    [progress |-> <<root>>, current_node |-> root,
     story_text |-> <<get_node(nodes, root).text>>,
     achievements |-> {}, choices_made |-> 0]

\* Render without the detection of lines 490-495
Render_NoDetect(nodes, s) == s

\* lines 464-495: what a script run that reaches the display does to the session.
\* get_node raises for a current node the graph does not hold, and the run ends.
Render(nodes, s) ==
    IF ~Has(nodes, s.current_node) THEN s
    ELSE LET node == get_node(nodes, s.current_node)
         IN  IF node.choices = <<>> /\ Find(node.text, Marker) # 0
             THEN [s EXCEPT !.achievements = @ \cup {ExtractAchievement(node.text)}]
             ELSE s

\* Notified without the membership test of line 492
Notified_Always(nodes, s) ==
    IF ~Has(nodes, s.current_node) THEN {}
    ELSE LET node == get_node(nodes, s.current_node)
         IN  IF node.choices = <<>> /\ Find(node.text, Marker) # 0
             THEN {ExtractAchievement(node.text)}
             ELSE {}

\* lines 492-495: the names the display of s announces as newly unlocked
Notified(nodes, s) ==
    IF ~Has(nodes, s.current_node) THEN {}
    ELSE LET node == get_node(nodes, s.current_node)
         IN  IF /\ node.choices = <<>>
                /\ Find(node.text, Marker) # 0
                /\ ExtractAchievement(node.text) \notin s.achievements
             THEN {ExtractAchievement(node.text)}
             ELSE {}

\* line 484: the display takes the ending branch for the node nid
IsEnding(nodes, nid) == Has(nodes, nid) /\ get_node(nodes, nid).choices = <<>>

\* lines 352-359
RestartHandler(nodes, root, s) ==
    LET moved == [s EXCEPT !.progress = <<root>>, !.current_node = root]
    IN  IF ~Has(nodes, root)
        THEN [s |-> moved, reported |-> "KeyError"]
        ELSE [s |-> [moved EXCEPT !.story_text = <<get_node(nodes, root).text>>,
                                  !.achievements = {},
                                  !.choices_made = 0],
              reported |-> "restarted"]

\* UndoHandler that does not decrement choices_made
UndoHandler_NoDecrement(s) ==
    IF Len(s.progress) > 1
    THEN LET popped == SubSeq(s.progress, 1, Len(s.progress) - 1)
         IN  [s |-> [s EXCEPT !.progress = popped,
                              !.current_node = popped[Len(popped)],
                              !.story_text = SubSeq(@, 1, Len(@) - 1)],
              reported |-> "undone"]
    ELSE [s |-> s, reported |-> "nothing to undo"]

\* UndoHandler that decrements choices_made outside the length test
UndoHandler_DecrementAlways(s) ==
    IF Len(s.progress) > 1
    THEN LET popped == SubSeq(s.progress, 1, Len(s.progress) - 1)
         IN  [s |-> [s EXCEPT !.progress = popped,
                              !.current_node = popped[Len(popped)],
                              !.story_text = SubSeq(@, 1, Len(@) - 1),
                              !.choices_made = @ - 1],
              reported |-> "undone"]
    ELSE [s |-> [s EXCEPT !.choices_made = @ - 1], reported |-> "nothing to undo"]

\* UndoHandler that leaves story_text as it is
UndoHandler_KeepsText(s) ==
    IF Len(s.progress) > 1
    THEN LET popped == SubSeq(s.progress, 1, Len(s.progress) - 1)
         IN  [s |-> [s EXCEPT !.progress = popped,
                              !.current_node = popped[Len(popped)],
                              !.choices_made = @ - 1],
              reported |-> "undone"]
    ELSE [s |-> s, reported |-> "nothing to undo"]

\* UndoHandler that also takes back the achievements
UndoHandler_ForgetsAchievements(s) ==
    IF Len(s.progress) > 1
    THEN LET popped == SubSeq(s.progress, 1, Len(s.progress) - 1)
         IN  [s |-> [s EXCEPT !.progress = popped,
                              !.current_node = popped[Len(popped)],
                              !.story_text = SubSeq(@, 1, Len(@) - 1),
                              !.choices_made = @ - 1,
                              !.achievements = {}],
              reported |-> "undone"]
    ELSE [s |-> s, reported |-> "nothing to undo"]

\* lines 363-371
UndoHandler(s) ==
    IF Len(s.progress) > 1
    THEN LET popped == SubSeq(s.progress, 1, Len(s.progress) - 1)
         IN  [s |-> [s EXCEPT !.progress = popped,
                              !.current_node = popped[Len(popped)],
                              !.story_text = SubSeq(@, 1, Len(@) - 1),
                              !.choices_made = @ - 1],
              reported |-> "undone"]
    ELSE [s |-> s, reported |-> "nothing to undo"]

\* lines 534-538, for the button of the choice that leads to child_id
ChoiceHandler(nodes, s, child_id) ==
    LET moved == [s EXCEPT !.progress = Append(@, child_id), !.current_node = child_id]
    IN  IF ~Has(nodes, child_id)
        THEN [s |-> moved, reported |-> "KeyError"]
        ELSE [s |-> [moved EXCEPT !.story_text = Append(@, get_node(nodes, child_id).text),
                                  !.choices_made = @ + 1],
              reported |-> "chosen"]

\* lines 431-442
ImportHandler(data, nodes, root, s) ==
    IF data.kind = "invalid"
    THEN [story_nodes |-> nodes, root_id |-> root, s |-> s,
          reported |-> "failed: JSONDecodeError"]
    ELSE LET l == load_tree(data, root)
             moved == [s EXCEPT !.progress = <<l.root_id>>, !.current_node = l.root_id]
         IN  IF l.raised # "no"
             THEN [story_nodes |-> l.story_nodes, root_id |-> l.root_id, s |-> s,
                   reported |-> "failed: AttributeError"]
             ELSE IF ~Has(l.story_nodes, l.root_id)
             THEN [story_nodes |-> l.story_nodes, root_id |-> l.root_id, s |-> moved,
                   reported |-> "failed: KeyError"]
             ELSE [story_nodes |-> l.story_nodes, root_id |-> l.root_id,
                   s |-> [moved EXCEPT
                            !.story_text = <<get_node(l.story_nodes, l.root_id).text>>,
                            !.achievements = {}],
                   reported |-> "imported"]

\* CreateSceneHandler that adds the scene and forgets to link it
CreateSceneHandler_NoLink(nodes, cur, nid, new_text, image_prompt, mood) ==
    IF Strip(new_text) = <<>>
    THEN [story_nodes |-> nodes, added |-> 0, reported |-> "no text"]
    ELSE LET grown == add_node(nodes, nid, Strip(new_text), <<>>, image_prompt, mood)
         IN  IF ~Has(grown, cur)
             THEN [story_nodes |-> grown, added |-> 1, reported |-> "KeyError"]
             ELSE [story_nodes |-> grown, added |-> 1, reported |-> "scene created"]

\* lines 401-410, with nid the id uuid4 returns
CreateSceneHandler(nodes, cur, nid, new_text, image_prompt, mood) ==
    IF Strip(new_text) = <<>>
    THEN [story_nodes |-> nodes, added |-> 0, reported |-> "no text"]
    ELSE LET grown == add_node(nodes, nid, Strip(new_text), <<>>, image_prompt, mood)
         IN  IF ~Has(grown, cur)
             THEN [story_nodes |-> grown, added |-> 1, reported |-> "KeyError"]
             ELSE [story_nodes |-> link_choice(grown, cur, AutoLabel(Strip(new_text)), nid),
                   added |-> 1, reported |-> "scene created"]

\* AddBranchHandler whose right path leads back to the current node
AddBranchHandler_BackToCurrent(nodes, root, cur, nid1, nid2, new_text, image_prompt, mood) ==
    IF Strip(new_text) = <<>>
    THEN [story_nodes |-> nodes, added |-> 0, reported |-> "nothing"]
    ELSE LET one == add_node(nodes, nid1, <<"You come to a crossroads...">>, <<>>,
                             DefaultImagePrompt, DefaultMood)
             two == add_node(one, nid2, Strip(new_text), <<>>, image_prompt, mood)
         IN  IF ~Has(two, cur)
             THEN [story_nodes |-> two, added |-> 2, reported |-> "KeyError"]
             ELSE [story_nodes |->
                      link_choice(
                        link_choice(
                          link_choice(two, cur, <<"Face a new challenge">>, nid1),
                          nid1, <<"Take the left path">>, nid2),
                        nid1, <<"Take the right path">>, cur),
                   added |-> 2, reported |-> "branch added"]

\* lines 413-422, with nid1 and nid2 the ids uuid4 returns
AddBranchHandler(nodes, root, cur, nid1, nid2, new_text, image_prompt, mood) ==
    IF Strip(new_text) = <<>>
    THEN [story_nodes |-> nodes, added |-> 0, reported |-> "nothing"]
    ELSE LET one == add_node(nodes, nid1, <<"You come to a crossroads...">>, <<>>,
                             DefaultImagePrompt, DefaultMood)
             two == add_node(one, nid2, Strip(new_text), <<>>, image_prompt, mood)
         IN  IF ~Has(two, cur)
             THEN [story_nodes |-> two, added |-> 2, reported |-> "KeyError"]
             ELSE [story_nodes |->
                      link_choice(
                        link_choice(
                          link_choice(two, cur, <<"Face a new challenge">>, nid1),
                          nid1, <<"Take the left path">>, nid2),
                        nid1, <<"Take the right path">>, root),
                   added |-> 2, reported |-> "branch added"]

-----------------------------------------------------------------------------
(* Inputs *)

EmptyDoc == ObjectDoc(<<>>)

\* "start" is not the first key; "end" relies on the defaults of load_tree
StartLastDoc ==
    ObjectDoc(<<
      Item("cave", ObjectEntry({"text", "choices", "metadata", "mood"},
           <<"A cave">>, <<Choice("Leave", "start")>>, "{depth: 1}", "", "gloomy")),
      Item("start", ObjectEntry({"text", "choices", "image_prompt"},
           <<"A road">>,
           <<Choice("Go in", "cave"), Choice("Jump", "ghost"), Choice("Rest", "end")>>,
           "{}", "a road", "")),
      Item("end", ObjectEntry({"text"},
           <<"Home", " ", Marker, " ", "Homebody", " ", Trophy>>, <<>>, "{}", "", ""))
    >>)

\* no "start" key, and a root that is an ending
NoStartDoc ==
    ObjectDoc(<<
      Item("finale", ObjectEntry({"text"},
           <<Marker, " ", "Speedrun", " ", Trophy>>, <<>>, "{}", "", "")),
      Item("cave", ObjectEntry({"text", "choices"},
           <<"A cave">>, <<Choice("Leave", "finale")>>, "{}", "", ""))
    >>)

MalformedFirstDoc ==
    ObjectDoc(<<
      Item("start", StringEntry),
      Item("cave", ObjectEntry({"text"}, <<"A cave">>, <<>>, "{}", "", ""))
    >>)

MalformedLastDoc ==
    ObjectDoc(<<
      Item("forest_entrance", ObjectEntry({"text", "choices"},
           <<"A wood">>, <<Choice("Onward", "start")>>, "{}", "", "")),
      Item("cave", StringEntry)
    >>)

Documents ==
    {EmptyDoc, StartLastDoc, NoStartDoc, MalformedFirstDoc, MalformedLastDoc,
     ArrayDoc, InvalidDoc}

\* what the author types into the crafting form
NewScenes ==
    {[new_text |-> <<" ">>, image_prompt |-> "", mood |-> "neutral"],
     [new_text |-> <<" ", "A hidden door", "\n">>, image_prompt |-> "a door",
      mood |-> "epic"]}

-----------------------------------------------------------------------------
(* The script *)

Init ==
    LET l == load_tree(enhanced_sample_story_tree, None)
    IN  /\ story_nodes = l.story_nodes
        /\ root_id = l.root_id
        /\ uuid_count = 0
        /\ LET s == Render(l.story_nodes, StartSession(l.story_nodes, l.root_id))
           IN  /\ progress = s.progress
               /\ current_node = s.current_node
               /\ story_text = s.story_text
               /\ achievements = s.achievements
               /\ choices_made = s.choices_made
        /\ notified = Notified(l.story_nodes, StartSession(l.story_nodes, l.root_id))
        /\ op = "start"
        /\ outcome = "started"

\* the Restart Story button
Restart ==
    LET r == RestartHandler(story_nodes, root_id, Sess)
    IN  /\ SetSession(IF r.reported = "restarted" THEN Render(story_nodes, r.s) ELSE r.s)
        /\ notified' = IF r.reported = "restarted" THEN Notified(story_nodes, r.s) ELSE {}
        /\ op' = "restart"
        /\ outcome' = r.reported
        /\ UNCHANGED <<story_nodes, root_id, uuid_count>>

\* the Undo Last Choice button
Undo ==
    LET r == UndoHandler(Sess)
    IN  /\ SetSession(Render(story_nodes, r.s))
        /\ notified' = Notified(story_nodes, r.s)
        /\ op' = "undo"
        /\ outcome' = r.reported
        /\ UNCHANGED <<story_nodes, root_id, uuid_count>>

\* the i-th choice button of the node on display
Choose(i) ==
    /\ Has(story_nodes, current_node)
    /\ i \in 1..Len(get_node(story_nodes, current_node).choices)
    /\ LET child_id == get_node(story_nodes, current_node).choices[i].to
           r == ChoiceHandler(story_nodes, Sess, child_id)
       IN  /\ SetSession(IF r.reported = "chosen" THEN Render(story_nodes, r.s) ELSE r.s)
           /\ notified' = IF r.reported = "chosen" THEN Notified(story_nodes, r.s) ELSE {}
           /\ op' = "choose"
           /\ outcome' = r.reported
    /\ UNCHANGED <<story_nodes, root_id, uuid_count>>

\* a file put into the Import Story Tree uploader
Import(data) ==
    LET r == ImportHandler(data, story_nodes, root_id, Sess)
    IN  /\ story_nodes' = r.story_nodes
        /\ root_id' = r.root_id
        /\ SetSession(Render(r.story_nodes, r.s))
        /\ notified' = Notified(r.story_nodes, r.s)
        /\ op' = "import"
        /\ outcome' = r.reported
        /\ UNCHANGED uuid_count

\* the Export Story Tree download, put back into the uploader
ImportExported == Import(export_tree(story_nodes))

\* the Create New Scene button
CreateScene(f) ==
    LET r == CreateSceneHandler(story_nodes, current_node, Uuid(uuid_count + 1),
                                f.new_text, f.image_prompt, f.mood)
    IN  /\ story_nodes' = r.story_nodes
        /\ uuid_count' = uuid_count + r.added
        /\ SetSession(IF r.reported = "KeyError" THEN Sess ELSE Render(r.story_nodes, Sess))
        /\ notified' = IF r.reported = "KeyError" THEN {} ELSE Notified(r.story_nodes, Sess)
        /\ op' = "create scene"
        /\ outcome' = r.reported
        /\ UNCHANGED root_id

\* AddBranch that counts the new branch as a choice made
AddBranch_CountsChoice(f) ==
    LET r == AddBranchHandler(story_nodes, root_id, current_node, Uuid(uuid_count + 1),
                              Uuid(uuid_count + 2), f.new_text, f.image_prompt, f.mood)
    IN  /\ story_nodes' = r.story_nodes
        /\ uuid_count' = uuid_count + r.added
        /\ SetSession(IF r.reported = "branch added"
                      THEN Render(r.story_nodes, [Sess EXCEPT !.choices_made = @ + 1])
                      ELSE Sess)
        /\ notified' = IF r.reported = "KeyError" THEN {} ELSE Notified(r.story_nodes, Sess)
        /\ op' = "add branch"
        /\ outcome' = r.reported
        /\ UNCHANGED root_id

\* the Add Branching Choice button
AddBranch(f) ==
    LET r == AddBranchHandler(story_nodes, root_id, current_node, Uuid(uuid_count + 1),
                              Uuid(uuid_count + 2), f.new_text, f.image_prompt, f.mood)
    IN  /\ story_nodes' = r.story_nodes
        /\ uuid_count' = uuid_count + r.added
        /\ SetSession(IF r.reported = "KeyError" THEN Sess ELSE Render(r.story_nodes, Sess))
        /\ notified' = IF r.reported = "KeyError" THEN {} ELSE Notified(r.story_nodes, Sess)
        /\ op' = "add branch"
        /\ outcome' = r.reported
        /\ UNCHANGED root_id

Next ==
    \/ Restart
    \/ (choices_made > -MaxDebt /\ Undo)
    \/ \E i \in 1..3 : Len(progress) < MaxHistory /\ choices_made < MaxChoices /\ Choose(i)
    \/ \E data \in Documents : Import(data)
    \/ ImportExported
    \/ \E f \in NewScenes : uuid_count < MaxUuid /\ CreateScene(f)
    \/ \E f \in NewScenes : uuid_count < MaxUuid /\ AddBranch(f)

Spec == Init /\ [][Next]_vars

\* a session that is only traversed: choices and undos on the sample tree
NextTraversal ==
    \/ Undo
    \/ \E i \in 1..3 : Len(progress) < MaxPath /\ Choose(i)

SpecTraversal == Init /\ [][NextTraversal]_vars

\* a session in which every operation succeeds: choices that resolve, undos,
\* restarts, and imports of well-formed documents that have a root
NextSession ==
    \/ (Restart /\ outcome' = "restarted")
    \/ Undo
    \/ \E i \in 1..3 : /\ Len(progress) < MaxPath
                       /\ choices_made < MaxPath
                       /\ Choose(i)
                       /\ outcome' = "chosen"
    \/ \E data \in Documents : Import(data) /\ outcome' = "imported"
    \/ (ImportExported /\ outcome' = "imported")

SpecSession == Init /\ [][NextSession]_vars

-----------------------------------------------------------------------------
(* The agent alone: an EnhancedStoryAgent built without a tree and driven   *)
(* through load_tree, add_node and link_choice; there is no session         *)

AgentTrees ==
    {enhanced_sample_story_tree, EmptyDoc, StartLastDoc, NoStartDoc, MalformedLastDoc,
     ArrayDoc}

LinkFroms == {"cave", "ghost", Uuid(1)}

LinkLabels == {<<"Leave">>, <<"Face a new challenge">>}

LinkTos == {"start", "ghost"}

\* lines 23-28 with story_tree = None
InitAgent ==
    /\ story_nodes = <<>>
    /\ root_id = None
    /\ uuid_count = 0
    /\ progress = <<>>
    /\ current_node = None
    /\ story_text = <<>>
    /\ achievements = {}
    /\ choices_made = 0
    /\ notified = {}
    /\ op = "construct"
    /\ outcome = "constructed"

\* LoadTree without the reset of line 31: the tree is read into the nodes held
LoadTree_Merges(tree) ==
    LET l == load_tree(tree, root_id)
        merged == IF tree.kind = "object"
                  THEN LoadLoop(tree.items, 1, story_nodes).story_nodes
                  ELSE story_nodes
    IN  /\ story_nodes' = merged
        /\ root_id' = l.root_id
        /\ op' = "load_tree"
        /\ outcome' = IF l.raised = "no" THEN "loaded" ELSE l.raised
        /\ UNCHANGED <<uuid_count, session, notified>>

\* agent.load_tree(tree)
LoadTree(tree) ==
    LET l == load_tree(tree, root_id)
    IN  /\ story_nodes' = l.story_nodes
        /\ root_id' = l.root_id
        /\ op' = "load_tree"
        /\ outcome' = IF l.raised = "no" THEN "loaded" ELSE l.raised
        /\ UNCHANGED <<uuid_count, session, notified>>

\* agent.add_node(text, choices={}, image_prompt, mood)
AddNode(f) ==
    /\ story_nodes' = add_node(story_nodes, Uuid(uuid_count + 1), f.new_text, <<>>,
                               f.image_prompt, f.mood)
    /\ uuid_count' = uuid_count + 1
    /\ op' = "add_node"
    /\ outcome' = Uuid(uuid_count + 1)
    /\ UNCHANGED <<root_id, session, notified>>

\* agent.link_choice(from_id, choice_text, to_id); the subscript of line 60
\* raises KeyError for a from_id the graph does not hold
LinkChoice(from_id, choice_text, to_id) ==
    /\ story_nodes' = IF Has(story_nodes, from_id)
                      THEN link_choice(story_nodes, from_id, choice_text, to_id)
                      ELSE story_nodes
    /\ op' = "link_choice"
    /\ outcome' = IF Has(story_nodes, from_id) THEN "linked" ELSE "KeyError"
    /\ UNCHANGED <<root_id, uuid_count, session, notified>>

NextAgent ==
    \/ \E tree \in AgentTrees : LoadTree(tree)
    \/ \E f \in NewScenes : uuid_count < MaxUuid /\ AddNode(f)
    \/ \E from_id \in LinkFroms, choice_text \in LinkLabels, to_id \in LinkTos :
          LinkChoice(from_id, choice_text, to_id)

SpecAgent == InitAgent /\ [][NextAgent]_vars

-----------------------------------------------------------------------------
(* Achievement detection alone: a session standing on a single ending node  *)
(* whose text is any sequence of tokens, and the expression of lines        *)
(* 490-491 evaluated on it                                                  *)

MaxTextLen == 4

DetectTokens == {Marker, Trophy, " ", "a"}

EndingTexts == UNION {[1..n -> DetectTokens] : n \in 0..MaxTextLen}

EndingDoc(text) ==
    ObjectDoc(<<Item("start", ObjectEntry({"text"}, text, <<>>, "{}", "", ""))>>)

\* lines 490-491: None when the test of line 490 fails, else the name
DetectAchievement(text) ==
    IF Find(text, Marker) = 0 THEN None ELSE ExtractAchievement(text)

InitDetect ==
    \E text \in EndingTexts :
       LET l == load_tree(EndingDoc(text), None)
       IN  /\ story_nodes = l.story_nodes
           /\ root_id = l.root_id
           /\ uuid_count = 0
           /\ LET s == Render(l.story_nodes, StartSession(l.story_nodes, l.root_id))
              IN  /\ progress = s.progress
                  /\ current_node = s.current_node
                  /\ story_text = s.story_text
                  /\ achievements = s.achievements
                  /\ choices_made = s.choices_made
           /\ notified = Notified(l.story_nodes, StartSession(l.story_nodes, l.root_id))
           /\ op = "start"
           /\ outcome = "started"

\* the expression of lines 490-491 on the text of the current node
Detect ==
    /\ op' = "detect"
    /\ outcome' = DetectAchievement(get_node(story_nodes, current_node).text)
    /\ UNCHANGED <<story_nodes, root_id, uuid_count, session, notified>>

NextDetect == Detect

SpecDetect == InitDetect /\ [][NextDetect]_vars

-----------------------------------------------------------------------------
(* A session on the sample story whose author uses the crafting tools       *)
(* repeatedly; the graph is never replaced                                  *)

MaxAuthored == 3

NextAuthoring ==
    \/ (Len(progress) > 1 /\ Undo)
    \/ \E i \in 1..3 : Len(progress) < MaxHistory /\ choices_made < MaxChoices /\ Choose(i)
    \/ \E f \in NewScenes : uuid_count < MaxAuthored /\ CreateScene(f)
    \/ \E f \in NewScenes : uuid_count < MaxAuthored /\ AddBranch(f)

SpecAuthoring == Init /\ [][NextAuthoring]_vars

-----------------------------------------------------------------------------
(* Claims *)

\* C1: in every reachable state len(history) = len(visitedText) >= 1 and
\* currentId = history[-1].
Cex_C1 ==
    /\ Len(progress) = Len(story_text)
    /\ Len(progress) >= 1
    /\ current_node = progress[Len(progress)]

\* C2: choosing a label whose target is not a key of the graph fails and leaves
\* history, visitedText, currentId and choiceCount as they were.
Cex_C2 ==
    [][\A i \in 1..3 :
         (/\ Choose(i)
          /\ ~Has(story_nodes, get_node(story_nodes, current_node).choices[i].to))
         => /\ outcome' # "chosen"
            /\ UNCHANGED <<progress, story_text, current_node, choices_made>>]_vars

HasMalformedEntry(data) ==
    data.kind = "object" /\ \E i \in 1..Len(data.items) : data.items[i].value.shape # "object"

\* C3: a load of a definition that has a node entry that is not map-shaped fails
\* and leaves the node mapping and rootId as they were, wherever the entry is.
Cex_C3 ==
    [][\A data \in Documents :
         (Import(data) /\ HasMalformedEntry(data))
         => /\ outcome' # "imported"
            /\ UNCHANGED <<story_nodes, root_id>>]_vars

\* C4: after any sequence of successful choose and undo calls on a started
\* session, choiceCount = len(history) - 1.
Thm_C4 == choices_made = Len(progress) - 1

Wit_C4 == op = "undo" /\ outcome = "undone" /\ choices_made = 2 /\ Len(progress) = 3

\* C5: choiceCount = len(history) - 1 after any sequence of successful choose,
\* undo, restart and import operations.
Cex_C5 == choices_made = Len(progress) - 1

\* C6: undo at len(history) = 1 changes none of history, visitedText, currentId,
\* choiceCount, achievements, and reports "nothing to undo".
Thm_C6 ==
    [][(Undo /\ Len(progress) = 1)
       => (UNCHANGED session /\ outcome' = "nothing to undo")]_vars

Wit_C6 ==
    /\ op = "undo"
    /\ outcome = "nothing to undo"
    /\ Len(progress) = 1
    /\ achievements # {}

SameGraph(g, h) ==
    /\ Keys(g) = Keys(h)
    /\ \A nid \in Keys(g) :
         /\ get_node(g, nid).text = get_node(h, nid).text
         /\ get_node(g, nid).choices = get_node(h, nid).choices
         /\ get_node(g, nid).metadata = get_node(h, nid).metadata
         /\ get_node(g, nid).image_prompt = get_node(h, nid).image_prompt
         /\ get_node(g, nid).mood = get_node(h, nid).mood

\* C7: loading the export of a graph made by load, addNode and linkChoice
\* does not raise and yields the same node ids and, for every node, the same
\* text, choices (labels, targets and their order), metadata, image prompt and
\* mood.
Thm_C7 ==
    [][ImportExported
       => /\ outcome' \in {"imported", "failed: KeyError"}
          /\ SameGraph(story_nodes', story_nodes)]_vars

Wit_C7 ==
    /\ op = "import"
    /\ outcome = "imported"
    /\ Has(story_nodes, Uuid(1))
    /\ \E i \in 1..Len(story_nodes) : Len(story_nodes[i].choices) = 3

\* C8: after a load of d that succeeds, rootId = "start" whenever d has the key
\* "start", whatever its other keys and their order, and rootId is absent
\* whenever d is empty.
Thm_C8 ==
    [][\A data \in Documents \cup {export_tree(story_nodes)} :
         (Import(data) /\ data.kind = "object" /\ ~HasMalformedEntry(data))
         => /\ "start" \in DocKeys(data) => root_id' = "start"
            /\ data.items = <<>> => root_id' = None]_vars

Wit_C8 ==
    /\ op = "import"
    /\ outcome = "imported"
    /\ root_id = "start"
    /\ story_nodes[1].id # "start"

\* C9: a successful choose immediately followed by undo restores history,
\* visitedText, currentId and choiceCount.
Thm_C9 ==
    Has(story_nodes, current_node) =>
      \A i \in 1..Len(get_node(story_nodes, current_node).choices) :
        LET c == ChoiceHandler(story_nodes, Sess,
                               get_node(story_nodes, current_node).choices[i].to)
            u == UndoHandler(Render(story_nodes, c.s))
        IN  c.reported = "chosen" =>
              /\ u.reported = "undone"
              /\ u.s.progress = progress
              /\ u.s.story_text = story_text
              /\ u.s.current_node = current_node
              /\ u.s.choices_made = choices_made

Wit_C9 ==
    /\ op = "undo"
    /\ outcome = "undone"
    /\ progress = <<"start">>
    /\ current_node = "start"
    /\ choices_made = 0
    /\ Len(story_nodes) = 14

\* C10: from any session state, after restart history = [rootId], visitedText =
\* [text of the root node], currentId = rootId, choiceCount = 0 and achievements
\* is empty (here: holds at most what the display of the root itself unlocks).
Cex_C10 ==
    [][Restart
       => /\ progress' = <<root_id>>
          /\ current_node' = root_id
          /\ Has(story_nodes, root_id)
          /\ story_text' = <<get_node(story_nodes, root_id).text>>
          /\ choices_made' = 0
          /\ achievements' \subseteq
               Render(story_nodes, [Sess EXCEPT !.current_node = root_id,
                                                !.achievements = {}]).achievements]_vars

\* C11: no session state whose history or currentId holds an absent id is
\* established: starting or restarting on a graph without a root fails instead.
Cex_C11 ==
    /\ current_node # None
    /\ \A i \in 1..Len(progress) : progress[i] # None

\* the session was reset by the last step
WasReset(o, r) ==
    \/ o = "restart" /\ r = "restarted"
    \/ o = "import" /\ r = "imported"

\* C12: no choose, undo or authoring operation removes a name from achievements;
\* a name leaves the set only through a restart or an import.
Thm_C12 ==
    [][~(achievements \subseteq achievements') => op' \in {"restart", "import"}]_vars

Wit_C12 ==
    /\ op = "undo"
    /\ outcome = "undone"
    /\ achievements # {}

\* C13: a name is announced only when it was not in achievements before the
\* display (or the session was reset by the same step), and an announced name
\* is in achievements afterwards: between two resets it is announced once.
Thm_C13 ==
    [][/\ \A n \in notified' : n \notin achievements \/ WasReset(op', outcome')
       /\ notified' \subseteq achievements']_vars

Wit_C13 ==
    /\ op = "choose"
    /\ outcome = "chosen"
    /\ Has(story_nodes, current_node)
    /\ get_node(story_nodes, current_node).choices = <<>>
    /\ Find(get_node(story_nodes, current_node).text, Marker) # 0
    /\ notified = {}


\* C14: link_choice keeps the order of a node's choices: an existing label
\* stays where it was and only its target changes, a new label goes last, and
\* every other label keeps its place and its target.
Thm_C14 ==
    [][\A from_id \in LinkFroms, choice_text \in LinkLabels, to_id \in LinkTos :
          LinkChoice(from_id, choice_text, to_id) /\ Has(story_nodes, from_id) =>
             LET old == get_node(story_nodes, from_id).choices
                 new == get_node(story_nodes', from_id).choices
             IN  IF choice_text \in Labels(old)
                 THEN /\ Len(new) = Len(old)
                      /\ \A i \in 1..Len(old) :
                            /\ new[i].label = old[i].label
                            /\ new[i].to = IF old[i].label = choice_text
                                           THEN to_id ELSE old[i].to
                 ELSE /\ Len(new) = Len(old) + 1
                      /\ new[Len(new)] = [label |-> choice_text, to |-> to_id]
                      /\ \A i \in 1..Len(old) : new[i] = old[i]]_vars

\* the label "Leave" the document gave cave was retargeted in place, and a
\* label added later stands after it
Wit_C14 ==
    /\ op = "link_choice"
    /\ outcome = "linked"
    /\ Has(story_nodes, "cave")
    /\ Len(get_node(story_nodes, "cave").choices) = 2
    /\ get_node(story_nodes, "cave").choices[1] = [label |-> <<"Leave">>, to |-> "ghost"]
    /\ get_node(story_nodes, "cave").choices[2].label = <<"Face a new challenge">>

\* C15: link_choice succeeds exactly when from_id is a key of the graph: an
\* absent from_id raises and leaves the graph as it was, an existing from_id
\* records the link whether or not to_id is a key.
Thm_C15 ==
    [][\A from_id \in LinkFroms, choice_text \in LinkLabels, to_id \in LinkTos :
          LinkChoice(from_id, choice_text, to_id) =>
             IF Has(story_nodes, from_id)
             THEN /\ outcome' = "linked"
                  /\ \E i \in 1..Len(get_node(story_nodes', from_id).choices) :
                        get_node(story_nodes', from_id).choices[i]
                            = [label |-> choice_text, to |-> to_id]
             ELSE /\ outcome' = "KeyError"
                  /\ story_nodes' = story_nodes
                  /\ root_id' = root_id]_vars

\* a link to "ghost" was recorded on a node of a graph that has no "ghost"
Wit_C15 ==
    /\ op = "link_choice"
    /\ outcome = "linked"
    /\ ~Has(story_nodes, "ghost")
    /\ \E i \in 1..Len(story_nodes) : \E j \in 1..Len(story_nodes[i].choices) :
          story_nodes[i].choices[j] = [label |-> <<"Face a new challenge">>, to |-> "ghost"]

\* C16: add_node only appends: the id it returns was not a key, every node
\* held before is still held with every field as it was, root_id is as it
\* was; and no add_node or link_choice call removes an id from the graph.
Thm_C16 ==
    [][/\ \A f \in NewScenes :
            AddNode(f) =>
               /\ ~Has(story_nodes, outcome')
               /\ Has(story_nodes', outcome')
               /\ Len(story_nodes') = Len(story_nodes) + 1
               /\ \A i \in 1..Len(story_nodes) : story_nodes'[i] = story_nodes[i]
               /\ root_id' = root_id
       /\ op' \in {"add_node", "link_choice"} => Keys(story_nodes) \subseteq Keys(story_nodes')]_vars

\* a node was added to a graph that already held linked nodes
Wit_C16 ==
    /\ op = "add_node"
    /\ Has(story_nodes, outcome)
    /\ Has(story_nodes, "cave")
    /\ get_node(story_nodes, "cave").choices[1].to = "ghost"
    /\ root_id # None


\* C17: the session is at an ending exactly when the current node has no
\* choices: an ending offers no choice button and only an ending announces
\* an achievement; an authoring step that links from the current node leaves
\* it with choices, and a node with choices keeps having choices for as long
\* as the graph is not replaced by an import.
Thm_C17 ==
    [][/\ IsEnding(story_nodes, current_node) => ~(\E i \in 1..3 : Choose(i))
       /\ notified' # {} => IsEnding(story_nodes', current_node')
       /\ outcome' \in {"scene created", "branch added"} =>
             /\ Has(story_nodes', current_node')
             /\ ~IsEnding(story_nodes', current_node')
       /\ op' # "import" =>
             \A i \in 1..Len(story_nodes) :
                story_nodes[i].choices # <<>> =>
                   /\ Has(story_nodes', story_nodes[i].id)
                   /\ ~IsEnding(story_nodes', story_nodes[i].id)]_vars

\* the session stood on an ending that carries an achievement marker, and the
\* scene created there is now its only choice
Wit_C17 ==
    /\ op = "create scene"
    /\ outcome = "scene created"
    /\ Has(story_nodes, current_node)
    /\ Find(get_node(story_nodes, current_node).text, Marker) # 0
    /\ Len(get_node(story_nodes, current_node).choices) = 1
    /\ get_node(story_nodes, current_node).choices[1].to = Uuid(1)
    /\ notified = {}


\* C18: a load_tree that returns replaces the graph: whatever nodes and
\* links were held, the ids afterwards are exactly the keys of the tree, the
\* nodes are those a new agent would read from it, and root_id follows from
\* the tree alone ("start" if it is a key, else the first key, else none).
Thm_C18 ==
    [][\A tree \in AgentTrees :
          LoadTree(tree) /\ outcome' = "loaded" =>
             /\ Keys(story_nodes') = DocKeys(tree)
             /\ Len(story_nodes') = Len(tree.items)
             /\ story_nodes' = load_tree(tree, None).story_nodes
             /\ root_id' = IF "start" \in DocKeys(tree) THEN "start"
                           ELSE IF tree.items # <<>> THEN tree.items[1].key
                           ELSE None]_vars

\* a tree without "start" was loaded over a graph that held an added node
Wit_C18 ==
    /\ op = "load_tree"
    /\ outcome = "loaded"
    /\ uuid_count > 0
    /\ ~Has(story_nodes, Uuid(1))
    /\ root_id = "finale"


\* the first position after position m of text that holds the trophy, 0 if none
TrophyAfter(text, m) ==
    IF \E j \in (m + 1)..Len(text) : text[j] = Trophy
    THEN CHOOSE j \in (m + 1)..Len(text) :
            text[j] = Trophy /\ \A k \in (m + 1)..(j - 1) : text[k] # Trophy
    ELSE 0

\* C19: detection gives nothing for a text without the marker, and for a
\* text whose marker is followed later by the trophy it gives the text
\* strictly between the marker and that trophy, trimmed; the session is
\* left as it was.
Cex_C19 ==
    op = "detect" =>
       LET text == get_node(story_nodes, current_node).text
           m == Find(text, Marker)
           t == TrophyAfter(text, m)
       IN  /\ m = 0 => outcome = None
           /\ m # 0 /\ t # 0 => outcome = Strip(SubSeq(text, m + 1, t - 1))


\* C20: in every reachable state current_node and every id of progress are
\* keys of story_nodes, so that the lookup of line 464 never fails.
Cex_C20 ==
    /\ Has(story_nodes, current_node)
    /\ \A i \in 1..Len(progress) : Has(story_nodes, progress[i])


\* the ids one press of a choice button leads to from the nodes with ids in from
Targets(nodes, from) ==
    UNION {{nodes[i].choices[j].to : j \in 1..Len(nodes[i].choices)} :
              i \in {k \in 1..Len(nodes) : nodes[k].id \in from}}

\* the ids in seen and those any number of presses lead to from them
RECURSIVE ReachSet(_, _)
ReachSet(nodes, seen) ==
    LET more == seen \cup Targets(nodes, seen)
    IN  IF more = seen THEN seen ELSE ReachSet(nodes, more)

\* to_id is reached from from_id by one press or more
Reachable(nodes, from_id, to_id) ==
    to_id \in ReachSet(nodes, Targets(nodes, {from_id}))

\* the ids add_node has returned so far
AuthoredIds == {Uuid(k) : k \in 1..uuid_count}

\* C21: a node created by the crafting tools stays reachable by choices from
\* the node it was linked from, whatever crafting follows: on every step
\* that is not an import, a created node that some node holds a choice to is
\* still reachable from that node afterwards.
Cex_C21 ==
    [][op' # "import" =>
          \A i \in 1..Len(story_nodes) : \A j \in 1..Len(story_nodes[i].choices) :
             story_nodes[i].choices[j].to \in AuthoredIds \cap Keys(story_nodes) =>
                Reachable(story_nodes', story_nodes[i].id, story_nodes[i].choices[j].to)]_vars

\* C22: once a script run has displayed the node the pointer is on, an
\* ending whose text holds the marker has its extracted name in achievements;
\* the display of a node that has choices adds nothing: achievements are
\* what they were, or what the reset of a restart or an import left.
Thm_C22 ==
    [][/\ (/\ IsEnding(story_nodes', current_node')
           /\ Find(get_node(story_nodes', current_node').text, Marker) # 0)
             => ExtractAchievement(get_node(story_nodes', current_node').text)
                   \in achievements'
       /\ (Has(story_nodes', current_node') /\ ~IsEnding(story_nodes', current_node'))
             => \/ achievements' = achievements
                \/ WasReset(op', outcome') /\ achievements' = {}]_vars

\* a choice led to an ending with a marker and its name was announced and kept
Wit_C22 ==
    /\ op = "choose"
    /\ outcome = "chosen"
    /\ IsEnding(story_nodes, current_node)
    /\ Find(get_node(story_nodes, current_node).text, Marker) # 0
    /\ notified = {ExtractAchievement(get_node(story_nodes, current_node).text)}
    /\ notified \subseteq achievements

\* C23: a branch added from the current node adds exactly two nodes: a
\* junction with exactly two choices, the first to the new leaf and the
\* second to root_id, and a leaf with the text, image prompt and mood of the
\* form and no choices; the current node then holds the fixed label, and its
\* target is the junction.
Thm_C23 ==
    [][\A f \in NewScenes :
          AddBranch(f) /\ outcome' = "branch added" =>
             LET junction == Uuid(uuid_count + 1)
                 leaf == Uuid(uuid_count + 2)
             IN  /\ Len(story_nodes') = Len(story_nodes) + 2
                 /\ Keys(story_nodes') = Keys(story_nodes) \cup {junction, leaf}
                 /\ Len(get_node(story_nodes', junction).choices) = 2
                 /\ get_node(story_nodes', junction).choices[1].to = leaf
                 /\ get_node(story_nodes', junction).choices[2].to = root_id
                 /\ get_node(story_nodes', leaf).text = Strip(f.new_text)
                 /\ get_node(story_nodes', leaf).image_prompt = f.image_prompt
                 /\ get_node(story_nodes', leaf).mood = f.mood
                 /\ get_node(story_nodes', leaf).choices = <<>>
                 /\ \E i \in 1..Len(get_node(story_nodes', current_node).choices) :
                       get_node(story_nodes', current_node).choices[i]
                          = [label |-> <<"Face a new challenge">>, to |-> junction]]_vars

\* a branch was added from a node that is not the root
Wit_C23 ==
    /\ op = "add branch"
    /\ outcome = "branch added"
    /\ current_node # root_id
    /\ Has(story_nodes, Uuid(2))
    /\ get_node(story_nodes, Uuid(1)).choices[2].to = root_id

\* C24: the crafting tools leave the session as it was: progress,
\* story_text, current_node, choices_made and achievements are unchanged by
\* Create New Scene and by Add Branching Choice, and after a run that
\* reports success the current node holds the new choice, so that the next
\* press can take it.
Thm_C24 ==
    [][op' \in {"create scene", "add branch"} =>
          /\ progress' = progress
          /\ story_text' = story_text
          /\ current_node' = current_node
          /\ choices_made' = choices_made
          /\ achievements' = achievements
          /\ outcome' \in {"scene created", "branch added"} =>
                \E i \in 1..Len(get_node(story_nodes', current_node').choices) :
                   /\ get_node(story_nodes', current_node').choices[i].to
                         = Uuid(uuid_count + 1)
                   /\ Has(story_nodes', Uuid(uuid_count + 1))]_vars

\* the first choice of the session took the scene that was created at the root
Wit_C24 ==
    /\ op = "choose"
    /\ outcome = "chosen"
    /\ current_node = Uuid(1)
    /\ progress = <<root_id, Uuid(1)>>
    /\ choices_made = 1
    /\ get_node(story_nodes, current_node).text = <<"A hidden door">>

=============================================================================
